---- MODULE Spec2Model ----
(***************************************************************************)
(* A model of plugins/file_transfer_plugin.py (the common file hooks and   *)
(* the operators built on them), interpreted as Python 3 executes it: the  *)
(* module calls subprocess.run, which only Python 3.5+ provides.           *)
(*                                                                         *)
(* A path is a sequence of names (the components of an absolute path), a   *)
(* name is a sequence of one-character strings, a file's content is a      *)
(* sequence of lines.  A Python exception is the string of its class name, *)
(* "" is "no exception".  An operation is one action; it leaves a record   *)
(* of what it was given, what it raised or returned, the state it started  *)
(* from and the events it went through in the variable last.               *)
(***************************************************************************)
EXTENDS Integers, Sequences, FiniteSets, TLC

VARIABLES
    local,      \* the local file system: path -> entry
    remote,     \* the file system of the FTP/SFTP server: path -> entry
    temps,      \* the temporary files that exist in the local temp directory
    last,       \* the record of the last operation
    step,       \* a step object: its attributes and how often it has run
    hooks,      \* the hook instances made so far, in the order made
    dag         \* a run of the pipeline etl_opa_v2: the states of its tasks

vars == <<local, remote, temps, last, step, hooks, dag>>

----------------------------------------------------------------------------
(* Bounds of the model *)

\* the longest file content, in lines
MaxLines == 2

\* the most temporary files the temp directory is let to hold
MaxTemps == 2

\* the longest sequence of paths given to a cleanup step
MaxPaths == 3

\* the deepest path a folder download is let to make
MaxDepth == 2

\* the most runs of one step object
MaxRuns == 2

\* the most hook instances a caller makes, and the most calls on one
MaxHooks == 2

MaxCalls == 2

----------------------------------------------------------------------------
(* Names, paths, contents *)

NmA == <<"a">>
NmD == <<"d">>
NmR1 == <<"r", "1">>
NmR2 == <<"r", "2">>

LocalPaths == { <<NmA>>, <<NmD>>, <<NmD, NmA>> }

RemotePaths == { <<NmD>>, <<NmD, NmR1>>, <<NmD, NmR2>> }

Lines == { "x" }

Contents == UNION { [1..n -> Lines] : n \in 0..MaxLines }

Absent == [kind |-> "absent", data |-> <<>>]

Dir == [kind |-> "dir", data |-> <<>>]

File(c) == [kind |-> "file", data |-> c]

\* what a path that exists can be
Entries == { Dir } \cup { File(c) : c \in Contents }

\* os.path.split / os.path.dirname / os.path.basename on a path
DirName(p) == SubSeq(p, 1, Len(p) - 1)

BaseName(p) == p[Len(p)]

\* A file system is a function from the paths that exist to their entries.
\* The entry at p: the root always is a directory, a path the file system
\* does not hold is absent
Lookup(fs, p) ==
    IF p = <<>> THEN Dir
    ELSE IF p \in DOMAIN fs THEN fs[p] ELSE Absent

\* os.path.exists, os.path.isdir, and their negation for regular files
Exists(fs, p) == Lookup(fs, p).kind # "absent"

IsDir(fs, p) == Lookup(fs, p).kind = "dir"

IsFile(fs, p) == Lookup(fs, p).kind = "file"

\* p is q or lies below q
Under(p, q) == Len(p) >= Len(q) /\ SubSeq(p, 1, Len(q)) = q

\* a file system is a tree: what exists lies in a directory
WellFormed(fs) ==
    \A p \in DOMAIN fs : Exists(fs, p) => IsDir(fs, DirName(p))

\* the file systems that hold some of the given paths
FileSystems(paths) ==
    { fs \in UNION { [S -> Entries] : S \in SUBSET paths } : WellFormed(fs) }

----------------------------------------------------------------------------
(* The result of an operation: the file systems and the temp directory it  *)
(* leaves, the exception it raised ("" for none), the value it returned    *)
(* and the events it went through.                                         *)

Res(l, r, t, err, ret, log) ==
    [l |-> l, r |-> r, t |-> t, err |-> err, ret |-> ret, log |-> log]

NoRet == "None"

Types == { "local", "ftp", "sftp", "s3" }

\* the four hook classes the registry knows, by their type tag
by_type(conn_type) ==
    CASE conn_type = "ftp" -> "CommonFTPHook"
      [] conn_type = "sftp" -> "CommonFTPSHook"
      [] conn_type = "s3" -> "CommonS3Hook"
      [] conn_type = "local" -> "CommonFSHook"

----------------------------------------------------------------------------
(* What the Python library does for the plugin *)

\* the error of the builtin open(p, mode), "" when the file opens
OpenErr(fs, p, writing) ==
    IF IsDir(fs, p) THEN "IsADirectoryError"
    ELSE IF IsFile(fs, DirName(p)) THEN "NotADirectoryError"
    ELSE IF ~IsDir(fs, DirName(p)) THEN "FileNotFoundError"
    ELSE IF ~writing /\ ~Exists(fs, p) THEN "FileNotFoundError"
    ELSE ""

\* the file system with the file p holding c
WriteFile(fs, p, c) ==
    [q \in DOMAIN fs \cup {p} |-> IF q = p THEN File(c) ELSE fs[q]]

\* the file system without p and everything below it
RemoveTree(fs, p) ==
    [q \in { q \in DOMAIN fs : ~Under(q, p) } |-> fs[q]]

\* shutil.copyfile(src, dst): the source is opened first, then the
\* destination is opened for writing, which truncates it
CopyFile(fs, src, dst) ==
    IF src = dst /\ Exists(fs, src) THEN [fs |-> fs, err |-> "SameFileError"]
    ELSE IF OpenErr(fs, src, FALSE) # ""
    THEN [fs |-> fs, err |-> OpenErr(fs, src, FALSE)]
    ELSE IF OpenErr(fs, dst, TRUE) # ""
    THEN [fs |-> fs, err |-> OpenErr(fs, dst, TRUE)]
    ELSE [fs |-> WriteFile(fs, dst, fs[src].data), err |-> ""]

\* makedirs(path, exist_ok=True): os.makedirs creates the missing
\* ancestors and the path; an existing directory is accepted (False is
\* returned), anything else raises
makedirs(fs, p) ==
    IF IsDir(fs, p) THEN [fs |-> fs, err |-> "", ret |-> FALSE]
    ELSE IF Exists(fs, p) THEN [fs |-> fs, err |-> "FileExistsError", ret |-> FALSE]
    ELSE IF \E n \in 1..Len(p) : IsFile(fs, SubSeq(p, 1, n))
    THEN [fs |-> fs, err |-> "NotADirectoryError", ret |-> FALSE]
    ELSE [fs |-> [q \in DOMAIN fs \cup { SubSeq(p, 1, n) : n \in 1..Len(p) } |->
                    IF Under(p, q) THEN Dir ELSE fs[q]],
          err |-> "", ret |-> TRUE]

\* the error class the client library raises for a path the server does
\* not have: ftplib raises error_perm, paramiko raises IOError
NoSuchFile(t) == IF t = "ftp" THEN "error_perm" ELSE "IOError"

\* the error of pysftp's conn.cd(dirname) / conn.cwd(dirname): paramiko's
\* chdir raises IOError for a path the server does not have and SFTPError
\* for one that is no directory
NoSuchDir(fs, dirname) == IF Exists(fs, dirname) THEN "SFTPError" ELSE "IOError"

\* get_conn of a new hook: the connection is made, or it cannot be
GetConn(t, net) ==
    IF net THEN [err |-> "", log |-> << <<"connect", t>> >>]
    ELSE [err |-> "ConnectionError", log |-> << <<"connect_failed", t>> >>]

\* retrieve_file(remote, local path) of FTPHook and of PySFTPHook: connect,
\* open the local file for writing (it is truncated), then fetch
retrieve_file(t, l, r, tm, rp, lp, net) ==
    LET c == GetConn(t, net) IN
    IF c.err # "" THEN Res(l, r, tm, c.err, NoRet, c.log)
    ELSE IF OpenErr(l, lp, TRUE) # ""
    THEN Res(l, r, tm, OpenErr(l, lp, TRUE), NoRet, c.log)
    ELSE IF ~IsFile(r, rp)
    THEN Res(WriteFile(l, lp, <<>>), r, tm, NoSuchFile(t), NoRet,
             c.log \o << <<"open_local", lp, "wb">>, <<"net", "get", rp>> >>)
    ELSE Res(WriteFile(l, lp, r[rp].data), r, tm, "", NoRet,
             c.log \o << <<"open_local", lp, "wb">>, <<"net", "get", rp>>,
                         <<"close_local", lp>> >>)

\* FTPHook.store_file(remote, input), the input a local path or a buffer
\* holding data: connect, open the input, change into the remote
\* directory, STOR.  A pysftp connection has cwd and no storbinary.
store_file(t, l, r, tm, rp, inErr, data, net) ==
    LET c == GetConn(t, net) IN
    IF c.err # "" THEN Res(l, r, tm, c.err, NoRet, c.log)
    ELSE IF inErr # "" THEN Res(l, r, tm, inErr, NoRet, c.log)
    ELSE IF ~IsDir(r, DirName(rp))
    THEN Res(l, r, tm, NoSuchFile(t), NoRet,
             c.log \o << <<"net", "cwd", DirName(rp)>> >>)
    ELSE IF t = "sftp"
    THEN Res(l, r, tm, "AttributeError", NoRet,
             c.log \o << <<"net", "cwd", DirName(rp)>> >>)
    ELSE IF IsDir(r, rp)
    THEN Res(l, r, tm, NoSuchFile(t), NoRet,
             c.log \o << <<"net", "cwd", DirName(rp)>>, <<"net", "put", rp>> >>)
    ELSE Res(l, WriteFile(r, rp, data), tm, "", NoRet,
             c.log \o << <<"net", "cwd", DirName(rp)>>, <<"net", "put", rp>> >>)

----------------------------------------------------------------------------
(* The hooks: CommonFSHook, CommonFTPHook, CommonFTPSHook, CommonS3Hook.    *)
(* Each operator is one method of a newly constructed hook of type t; net  *)
(* says whether the hook's server can be connected to.                     *)

\* a download that does not look at replace
download_unchecked(t, l, r, tm, rp, lp, replace, net) ==
    IF t = "s3" THEN Res(l, r, tm, "NotImplementedError", NoRet, <<>>)
    ELSE IF t = "local"
    THEN LET c == CopyFile(l, rp, lp) IN Res(c.fs, r, tm, c.err, NoRet, <<>>)
    ELSE LET m == makedirs(l, DirName(lp)) IN
         IF m.err # "" THEN Res(m.fs, r, tm, m.err, NoRet, <<>>)
         ELSE retrieve_file(t, m.fs, r, tm, rp, lp, net)

\* download(remotepath, localpath, replace).  CommonS3Hook inherits the base
\* class's method, which raises NotImplementedError.
download(t, l, r, tm, rp, lp, replace, net) ==
    IF t = "s3" THEN Res(l, r, tm, "NotImplementedError", NoRet, <<>>)
    ELSE IF ~replace /\ Exists(l, lp)
    THEN Res(l, r, tm, "FileExistsError", NoRet, <<>>)
    ELSE IF t = "local"
    THEN LET c == CopyFile(l, rp, lp) IN Res(c.fs, r, tm, c.err, NoRet, <<>>)
    ELSE LET m == makedirs(l, DirName(lp)) IN
         IF m.err # "" THEN Res(m.fs, r, tm, m.err, NoRet, <<>>)
         ELSE retrieve_file(t, m.fs, r, tm, rp, lp, net)

\* upload(localpath, remotepath, replace): the FTP mixin does not look at
\* replace
upload(t, l, r, tm, lp, rp, replace, net) ==
    IF t = "s3" THEN Res(l, r, tm, "NotImplementedError", NoRet, <<>>)
    ELSE IF t = "local"
    THEN IF ~replace /\ Exists(l, rp)
         THEN Res(l, r, tm, "FileExistsError", NoRet, <<>>)
         ELSE LET c == CopyFile(l, lp, rp) IN Res(c.fs, r, tm, c.err, NoRet, <<>>)
    ELSE store_file(t, l, r, tm, rp, OpenErr(l, lp, FALSE),
                    Lookup(l, lp).data, net)

\* shutil.copytree(src, dst): list src, make dst (which must not exist) and
\* its missing ancestors, copy what was listed and what lies below it
copytree(fs, src, dst) ==
    IF ~IsDir(fs, src)
    THEN [fs |-> fs, err |-> IF Exists(fs, src) THEN "NotADirectoryError"
                             ELSE "FileNotFoundError"]
    ELSE LET m == makedirs(fs, dst)
             below == { q \in DOMAIN fs : Under(q, src) /\ q # src }
             To(q) == dst \o SubSeq(q, Len(src) + 1, Len(q))
         IN IF m.err # "" THEN [fs |-> m.fs, err |-> m.err]
            ELSE [fs |-> [n \in DOMAIN m.fs \cup { To(q) : q \in below } |->
                            IF \E q \in below : To(q) = n
                            THEN fs[CHOOSE q \in below : To(q) = n]
                            ELSE m.fs[n]],
                  err |-> ""]

\* PySFTPHook.retrieve_folder(remote, local): conn.get_d fetches the regular
\* files of the remote directory into the local one
retrieve_folder(l, r, tm, rp, lp, net) ==
    LET c == GetConn("sftp", net)
        files == { n \in { BaseName(q) : q \in { q \in DOMAIN r : DirName(q) = rp } } :
                     IsFile(r, rp \o <<n>>) }
    IN
    IF c.err # "" THEN Res(l, r, tm, c.err, NoRet, c.log)
    ELSE IF ~IsDir(r, rp)
    THEN Res(l, r, tm, NoSuchDir(r, rp), NoRet, c.log \o << <<"net", "cwd", rp>> >>)
    ELSE Res([q \in DOMAIN l \cup { lp \o <<n>> : n \in files } |->
                IF Under(q, lp) /\ q # lp THEN r[rp \o <<BaseName(q)>>] ELSE l[q]],
             r, tm, "", NoRet,
             c.log \o << <<"net", "cwd", rp>>, <<"net", "get_d", rp>> >>)

\* download_folder(remotepath, localpath, replace): what exists at localpath
\* is removed with rmtree (which a regular file does not survive: it raises)
\* or refused; then the tree is copied, or the directory made and filled.
\* FTPHook has no retrieve_folder.
download_folder(t, l, r, tm, rp, lp, replace, net) ==
    IF t = "s3" THEN Res(l, r, tm, "NotImplementedError", NoRet, <<>>)
    ELSE IF Exists(l, lp) /\ ~replace
    THEN Res(l, r, tm, "FileExistsError", NoRet, <<>>)
    ELSE IF IsFile(l, lp) THEN Res(l, r, tm, "NotADirectoryError", NoRet, <<>>)
    ELSE LET l1 == RemoveTree(l, lp) IN
         IF t = "local"
         THEN LET c == copytree(l1, rp, lp) IN Res(c.fs, r, tm, c.err, NoRet, <<>>)
         ELSE LET m == makedirs(l1, lp) IN
              IF m.err # "" THEN Res(m.fs, r, tm, m.err, NoRet, <<>>)
              ELSE IF t = "ftp" THEN Res(m.fs, r, tm, "AttributeError", NoRet, <<>>)
              ELSE retrieve_folder(m.fs, r, tm, rp, lp, net)

\* delete(path): only CommonFSHook has one; rmtree for a directory, unlink
\* for anything else
delete(t, l, r, tm, p) ==
    IF t # "local" THEN Res(l, r, tm, "NotImplementedError", NoRet, <<>>)
    ELSE IF IsDir(l, p) THEN Res(RemoveTree(l, p), r, tm, "", NoRet, <<>>)
    ELSE IF ~Exists(l, p) THEN Res(l, r, tm, "FileNotFoundError", NoRet, <<>>)
    ELSE Res(RemoveTree(l, p), r, tm, "", NoRet, <<>>)

\* fnmatch.fnmatch(name, pattern): * matches any run of characters, ? one
RECURSIVE fnmatch(_, _)
fnmatch(name, pat) ==
    IF pat = <<>> THEN name = <<>>
    ELSE IF Head(pat) = "*"
    THEN fnmatch(name, Tail(pat)) \/ (name # <<>> /\ fnmatch(Tail(name), pat))
    ELSE IF name = <<>> THEN FALSE
    ELSE (Head(pat) = "?" \/ Head(pat) = Head(name))
         /\ fnmatch(Tail(name), Tail(pat))

\* conn.listdir_attr() inside conn.cd(dirname): the names in the directory
listdir(fs, dirname) ==
    { BaseName(q) : q \in { q \in DOMAIN fs : DirName(q) = dirname } }

\* PySFTPHook._match_basename(dirname, basepattern, modefilter): the names
\* in dirname that pass the mode filter and match; an exception when the
\* connection fails or conn.cd cannot change into dirname
match_basename(fs, dirname, basepattern, kind, net) ==
    LET c == GetConn("sftp", net) IN
    IF c.err # "" THEN [err |-> c.err, names |-> {}, log |-> c.log]
    ELSE IF ~IsDir(fs, dirname)
    THEN [err |-> NoSuchDir(fs, dirname), names |-> {},
          log |-> c.log \o << <<"net", "cwd", dirname>> >>]
    ELSE [err |-> "",
          names |-> { n \in listdir(fs, dirname) :
                        Lookup(fs, dirname \o <<n>>).kind = kind
                        /\ fnmatch(n, basepattern) },
          log |-> c.log \o << <<"net", "cwd", dirname>>, <<"net", "listdir", dirname>> >>]

\* file_exists(remote_full_path): PySFTPHook lists the directory for
\* regular files; every other hook inherits the base class's method
file_exists(t, l, r, tm, p, net) ==
    IF t # "sftp" THEN Res(l, r, tm, "NotImplementedError", NoRet, <<>>)
    ELSE LET m == match_basename(r, DirName(p), BaseName(p), "file", net) IN
         IF m.err # "" THEN Res(l, r, tm, m.err, NoRet, m.log)
         ELSE Res(l, r, tm, "", Cardinality(m.names) > 0, m.log)

\* folder_exists(remote_full_path): the same for directories
folder_exists(t, l, r, tm, p, net) ==
    IF t # "sftp" THEN Res(l, r, tm, "NotImplementedError", NoRet, <<>>)
    ELSE LET m == match_basename(r, DirName(p), BaseName(p), "dir", net) IN
         IF m.err # "" THEN Res(l, r, tm, m.err, NoRet, m.log)
         ELSE Res(l, r, tm, "", Cardinality(m.names) > 0, m.log)

----------------------------------------------------------------------------
(* open(remotepath, mode).  Every hook's open is decorated with            *)
(* contextlib.contextmanager: the call runs the decorated function and     *)
(* keeps what it returns as "the generator"; __enter__ calls next() on it; *)
(* __exit__ calls next() on it again (the block ended normally) or         *)
(* throw() (the block raised).  Only CommonS3Hook.open is a generator      *)
(* function; CommonFSHook.open returns a file object and the FTP mixin's   *)
(* open returns the generator of _open_for_read or _open_for_write, or     *)
(* nothing.                                                                *)

Modes ==
    { <<>>, <<"r">>, <<"r", "b">>, <<"r", "+">>, <<"r", "b", "+">>,
      <<"w">>, <<"w", "b">>, <<"w", "+">>,
      <<"a">>, <<"a", "b">>, <<"a", "+">>, <<"x">> }

\* 'c' in mode
HasChar(mode, c) == \E i \in 1..Len(mode) : mode[i] = c

\* mode.startswith(prefix)
StartsWith(mode, prefix) ==
    Len(mode) >= Len(prefix) /\ SubSeq(mode, 1, Len(prefix)) = prefix

parse_mode(mode) ==
    [is_binary |-> HasChar(mode, "b"),
     can_read |-> mode = <<>> \/ StartsWith(mode, <<"r">>),
     can_write |-> StartsWith(mode, <<"w">>) \/ StartsWith(mode, <<"r", "+">>)
                   \/ StartsWith(mode, <<"a">>),
     replace |-> StartsWith(mode, <<"w">>)]

\* what the call hook.open(p, mode) leaves: an exception, or the object
\* the context manager holds as its generator
Gen(kind, lines) == [kind |-> kind, lines |-> lines]

\* CommonFSHook.open: the builtin open(p, mode) runs at the call
fs_open(l, p, mode) ==
    LET base == IF mode = <<>> THEN "" ELSE Head(mode)
        plus == HasChar(mode, "+")
    IN
    IF base \notin {"r", "w", "a", "x"}
    THEN [err |-> "ValueError", gen |-> Gen("None", <<>>), l |-> l, log |-> <<>>]
    ELSE IF base = "x" /\ Exists(l, p)
    THEN [err |-> "FileExistsError", gen |-> Gen("None", <<>>), l |-> l, log |-> <<>>]
    ELSE IF OpenErr(l, p, base # "r") # ""
    THEN [err |-> OpenErr(l, p, base # "r"), gen |-> Gen("None", <<>>), l |-> l,
          log |-> <<>>]
    ELSE [err |-> "",
          gen |-> Gen(IF base = "r" \/ plus THEN "file_r" ELSE "file_w",
                      IF base = "r" THEN l[p].data ELSE <<>>),
          l |-> IF base = "w" \/ ~Exists(l, p) THEN WriteFile(l, p, <<>>) ELSE l,
          log |-> << <<"open_local", p, mode>> >>]

\* CommonFTPHookMixin.open: the mode is refused at the call, or the
\* generator of _open_for_read or of _open_for_write is returned unstarted,
\* or (no branch taken) None
ftp_open(l, mode) ==
    LET mode_params == parse_mode(mode) IN
    IF mode_params.can_read /\ mode_params.can_write
    THEN [err |-> "NotImplementedError", gen |-> Gen("None", <<>>), l |-> l, log |-> <<>>]
    ELSE IF mode_params.can_write /\ ~mode_params.replace
    THEN [err |-> "NotImplementedError", gen |-> Gen("None", <<>>), l |-> l, log |-> <<>>]
    ELSE IF mode_params.can_read
    THEN [err |-> "", gen |-> Gen("_open_for_read", <<>>), l |-> l, log |-> <<>>]
    ELSE IF mode_params.can_write
    THEN [err |-> "", gen |-> Gen("_open_for_write", <<>>), l |-> l, log |-> <<>>]
    ELSE [err |-> "", gen |-> Gen("None", <<>>), l |-> l, log |-> <<>>]

\* the call hook.open(p, mode) of a hook of type t
open_call(t, l, p, mode) ==
    IF t = "local" THEN fs_open(l, p, mode)
    ELSE IF t = "s3"
    THEN [err |-> "", gen |-> Gen("s3_open", <<>>), l |-> l, log |-> <<>>]
    ELSE ftp_open(l, mode)

\* __enter__: next(gen).  A file object gives its next line; the read
\* generators stop at the undefined name path before any I/O; the write
\* generator stores an empty buffer on the server and yields the buffer.
\* val is what the with statement binds: a line, a BytesIO, or nothing.
cm_enter(t, gen, l, r, tm, p, net) ==
    CASE gen.kind = "file_r" ->
           IF gen.lines = <<>>
           THEN [res |-> Res(l, r, tm, "RuntimeError", NoRet, <<>>), val |-> "None"]
           ELSE [res |-> Res(l, r, tm, "", NoRet, <<>>), val |-> "bytes"]
      [] gen.kind = "file_w" ->
           [res |-> Res(l, r, tm, "UnsupportedOperation", NoRet, <<>>), val |-> "None"]
      [] gen.kind = "None" ->
           [res |-> Res(l, r, tm, "TypeError", NoRet, <<>>), val |-> "None"]
      [] gen.kind \in {"_open_for_read", "s3_open"} ->
           [res |-> Res(l, r, tm, "NameError", NoRet, <<>>), val |-> "None"]
      [] gen.kind = "_open_for_write" ->
           LET st == store_file(t, l, r, tm, p, "", <<>>, net) IN
           [res |-> [st EXCEPT !.log = << <<"new_buffer", p>> >> \o @],
            val |-> IF st.err = "" THEN "BytesIO" ELSE "None"]

\* __exit__ after a block that ended normally: next(gen) must stop
cm_exit_ok(gen) ==
    IF gen.kind = "file_r" /\ Len(gen.lines) > 1 THEN "RuntimeError" ELSE ""

\* __exit__ after a block that raised exc: gen.throw(exc); a file object
\* has no throw, a generator re-raises exc
cm_exit_exc(gen, exc) ==
    IF gen.kind \in {"file_r", "file_w"} THEN "AttributeError" ELSE exc

\* with hook.open(p, mode) as f: pass -- the call, __enter__, __exit__.
\* The value returned says what f was bound to and which of the three
\* raised.
open_with(t, l, r, tm, p, mode, net) ==
    LET c == open_call(t, l, p, mode) IN
    IF c.err # ""
    THEN Res(c.l, r, tm, c.err, [val |-> "None", at |-> "call"], c.log)
    ELSE LET e == cm_enter(t, c.gen, c.l, r, tm, p, net) IN
         IF e.res.err # ""
         THEN [e.res EXCEPT !.ret = [val |-> "None", at |-> "enter"],
                            !.log = c.log \o @]
         ELSE [e.res EXCEPT !.ret = [val |-> e.val,
                                     at |-> IF cm_exit_ok(c.gen) = "" THEN "" ELSE "exit"],
                            !.err = cm_exit_ok(c.gen),
                            !.log = c.log \o @]

----------------------------------------------------------------------------
(* The operators *)

\* a check that finds nothing
check_source_blind(t, l, r, tm, p, net) ==
    LET f == file_exists(t, l, r, tm, p, net) IN
    IF f.err # "" THEN f ELSE [f EXCEPT !.ret = FALSE]

\* FileAvailabilitySensor.check_source / poke: True or False as the new
\* hook's file_exists says; nothing is caught
check_source(t, l, r, tm, p, net) ==
    LET f == file_exists(t, l, r, tm, p, net) IN
    IF f.err # "" THEN f ELSE [f EXCEPT !.ret = IF f.ret THEN TRUE ELSE FALSE]

\* FolderAvailabilitySensor.check_source
check_source_folder(t, l, r, tm, p, net) ==
    LET f == folder_exists(t, l, r, tm, p, net) IN
    IF f.err # "" THEN f ELSE [f EXCEPT !.ret = IF f.ret THEN TRUE ELSE FALSE]

\* a best-effort cleanup: a delete that raises is noted and the loop goes on
RECURSIVE cleanup_from_all(_, _, _, _, _, _, _)
cleanup_from_all(t, l, r, tm, paths, i, log) ==
    IF i > Len(paths)
    THEN Res(l, r, tm,
             IF \E j \in 1..Len(log) : log[j][3] = "raised" THEN "FileNotFoundError" ELSE "",
             NoRet, log)
    ELSE LET d == delete(t, l, r, tm, paths[i]) IN
         cleanup_from_all(t, d.l, d.r, d.t, paths, i + 1,
                          Append(log, <<"delete", paths[i],
                                        IF d.err # "" THEN "raised" ELSE "done">>))

\* CleanupOperator.execute: delete the paths one after the other from the
\* i-th on; an exception of delete leaves the loop and the step
RECURSIVE cleanup_from(_, _, _, _, _, _, _)
cleanup_from(t, l, r, tm, paths, i, log) ==
    IF i > Len(paths) THEN Res(l, r, tm, "", NoRet, log)
    ELSE LET d == delete(t, l, r, tm, paths[i]) IN
         IF d.err # ""
         THEN Res(d.l, d.r, d.t, d.err, NoRet, Append(log, <<"delete", paths[i], "raised">>))
         ELSE cleanup_from(t, d.l, d.r, d.t, paths, i + 1,
                           Append(log, <<"delete", paths[i], "done">>))

cleanup_execute(t, l, r, tm, paths) == cleanup_from(t, l, r, tm, paths, 1, <<>>)

\* the name of a new temporary file: one the temp directory does not hold
Fresh(tm) == CHOOSE n \in 1..(Cardinality(tm) + 1) : n \notin tm

\* FileDownloadOperator.create_temp_dest: mkstemp() returns a pair (a file
\* descriptor and a name), so dest.name raises AttributeError; the handler
\* "except e:" then raises NameError, as it does when mkstemp itself
\* failed.  The file mkstemp made stays.
create_temp_dest(l, r, tm, tmpok) ==
    IF tmpok
    THEN Res(l, r, tm \cup {Fresh(tm)}, "NameError", NoRet,
             << <<"mkstemp", Fresh(tm)>> >>)
    ELSE Res(l, r, tm, "NameError", NoRet, << <<"mkstemp_failed">> >>)

\* FileDownloadOperator.execute; dest is the operator's dest_path, the
\* empty path when none was given.  The step returns self.dest_path.
download_execute(t, l, r, tm, sp, dest, net, tmpok) ==
    IF dest = <<>> THEN create_temp_dest(l, r, tm, tmpok)
    ELSE LET d == download(t, l, r, tm, sp, dest, TRUE, net) IN
         IF d.err # "" THEN d ELSE [d EXCEPT !.ret = dest]

\* FolderDownloadOperator.create_temp_dest: the same statements (and
\* mkstemp, which makes a file, not a directory)
create_temp_dest_folder(l, r, tm, tmpok) ==
    IF tmpok
    THEN Res(l, r, tm \cup {Fresh(tm)}, "NameError", NoRet,
             << <<"mkstemp", Fresh(tm)>> >>)
    ELSE Res(l, r, tm, "NameError", NoRet, << <<"mkstemp_failed">> >>)

\* FolderDownloadOperator.execute
folder_download_execute(t, l, r, tm, sp, dest, net, tmpok) ==
    IF dest = <<>> THEN create_temp_dest_folder(l, r, tm, tmpok)
    ELSE LET d == download_folder(t, l, r, tm, sp, dest, TRUE, net) IN
         IF d.err # "" THEN d ELSE [d EXCEPT !.ret = dest]

----------------------------------------------------------------------------
(* FileTransferOperator and FileTransformOperator.  A value handed to      *)
(* transfer is what a with statement bound: "bytes" is a line of a local   *)
(* file (a bytes object, not a stream), "BytesIO" the buffer of            *)
(* _open_for_write, "stream" a file-like object with content data; a       *)
(* writable stream raises at its failAt-th write (0: never).               *)

Stream(kind, data, failAt) == [kind |-> kind, data |-> data, failAt |-> failAt]

\* for chunk in chunks: dest.write(chunk), from the i-th chunk on
RECURSIVE write_chunks(_, _, _)
write_chunks(dest, chunks, i) ==
    IF i > Len(chunks) THEN [dest |-> dest, err |-> ""]
    ELSE IF dest.failAt = Len(dest.data) + 1 THEN [dest |-> dest, err |-> "IOError"]
    ELSE write_chunks([dest EXCEPT !.data = Append(@, chunks[i])], chunks, i + 1)

\* FileTransferOperator.transfer(source, dest): iterating a bytes object
\* gives integers, which no stream's write accepts
plain_transfer(source, dest, tm) ==
    IF source.kind = "bytes"
    THEN [dest |-> dest, t |-> tm, err |-> "TypeError", msg |-> <<>>, log |-> <<>>]
    ELSE LET w == write_chunks(dest, source.data, 1) IN
         [dest |-> w.dest, t |-> tm, err |-> w.err, msg |-> <<>>,
          log |-> IF w.dest.data # dest.data THEN << <<"write_dest">> >> ELSE <<>>]

\* the exit statuses of a child process: success, failure, killed by a signal
ExitCodes == { 0, 1, -9 }

\* what the transform command does with its input
Scripts == { "echo", "empty" }

RunScript(script, input) == IF script = "echo" THEN input ELSE <<>>

\* a temporary file that stays when its block raised
TempExit_kept(tm, id, raised) == IF raised THEN tm ELSE tm \ {id}

\* leaving the with block of a NamedTemporaryFile: the file is closed and
\* thereby deleted, whether or not the block raised
TempExit(tm, id, raised) == tm \ {id}

\* FileTransformOperator.transform(f_source, f_dest): run the command on
\* the argument vector [script] + the temp files' names as the flags ask;
\* a status above 0 leads to raise AirflowException("Transform script
\* failed " + self.sp.stderr), where stderr is bytes: the concatenation
\* raises TypeError and no AirflowException is ever made.  msg is the text
\* the raised exception carries.
transform(cfg, env, input, id1, id2) ==
    LET script_args ==
            <<"script">> \o (IF ~cfg.use_stdin THEN << <<"tmp", id1>> >> ELSE <<>>)
                         \o (IF ~cfg.use_stdout THEN << <<"tmp", id2>> >> ELSE <<>>)
    IN [out |-> RunScript(env.script, input),
        err |-> IF env.rc > 0 THEN "TypeError" ELSE "",
        msg |-> IF env.rc > 0 THEN <<"can only concatenate str (not \"bytes\") to str">>
                ELSE <<>>,
        log |-> << <<"run", script_args, env.rc>> >>]

\* FileTransformOperator.transfer(source, dest)
transform_transfer(source, dest, tm, cfg, env) ==
    IF env.tmpfail = 1
    THEN [dest |-> dest, t |-> tm, err |-> "OSError", msg |-> <<>>, log |-> <<>>]
    ELSE
    LET id1 == Fresh(tm)
        tm1 == tm \cup {id1}
        l1 == << <<"mktemp", id1>> >>
    IN
    IF source.kind # "stream"
    THEN [dest |-> dest, t |-> TempExit(tm1, id1, TRUE), err |-> "AttributeError",
          msg |-> <<>>,
          log |-> l1 \o << <<"rmtemp", id1>> >>]
    ELSE IF env.tmpfail = 2
    THEN [dest |-> dest, t |-> TempExit(tm1, id1, TRUE), err |-> "OSError",
          msg |-> <<>>,
          log |-> l1 \o << <<"read_source">>, <<"rmtemp", id1>> >>]
    ELSE
    LET id2 == Fresh(tm1)
        tm2 == tm1 \cup {id2}
        l2 == l1 \o << <<"read_source">>, <<"mktemp", id2>> >>
        x == transform(cfg, env, source.data, id1, id2)
    IN
    IF x.err # ""
    THEN [dest |-> dest, t |-> TempExit(TempExit(tm2, id2, TRUE), id1, TRUE),
          err |-> x.err, msg |-> x.msg,
          log |-> l2 \o x.log \o << <<"rmtemp", id2>>, <<"rmtemp", id1>> >>]
    ELSE
    LET w == write_chunks(dest, x.out, 1) IN
    [dest |-> w.dest,
     t |-> TempExit(TempExit(tm2, id2, w.err # ""), id1, w.err # ""),
     err |-> w.err, msg |-> <<>>,
     log |-> l2 \o x.log
             \o (IF w.dest.data # dest.data THEN << <<"write_dest">> >> ELSE <<>>)
             \o << <<"rmtemp", id2>>, <<"rmtemp", id1>> >>]

\* the transfer method of the operator class: FileTransferOperator's, or
\* FileTransformOperator's override
transfer(class, source, dest, tm, cfg, env) ==
    IF class = "FileTransformOperator"
    THEN transform_transfer(source, dest, tm, cfg, env)
    ELSE plain_transfer(source, dest, tm)

\* the body of the outer with of execute: open the destination for 'w',
\* enter it, transfer, leave it.  source is what the outer with bound.
execute_body(class, dt, dp, l, r, tm, source, cfg, env, net) ==
    LET cd == open_call(dt, l, dp, <<"w">>) IN
    IF cd.err # "" THEN Res(cd.l, r, tm, cd.err, NoRet, cd.log)
    ELSE LET ed == cm_enter(dt, cd.gen, cd.l, r, tm, dp, net) IN
         IF ed.res.err # "" THEN [ed.res EXCEPT !.log = cd.log \o @]
         ELSE LET tr == transfer(class, source, Stream(ed.val, <<>>, 0), tm, cfg, env) IN
              Res(ed.res.l, ed.res.r, tr.t,
                  IF tr.err # "" THEN cm_exit_exc(cd.gen, tr.err) ELSE cm_exit_ok(cd.gen),
                  NoRet, cd.log \o ed.res.log \o tr.log)

\* FileTransferOperator.execute (FileTransformOperator inherits it): open
\* the source for 'rb', enter it, run the body, leave it
execute(class, st, sp, dt, dp, l, r, tm, cfg, env, net) ==
    LET cs == open_call(st, l, sp, <<"r", "b">>) IN
    IF cs.err # "" THEN Res(cs.l, r, tm, cs.err, NoRet, cs.log)
    ELSE LET es == cm_enter(st, cs.gen, cs.l, r, tm, sp, net) IN
         IF es.res.err # "" THEN [es.res EXCEPT !.log = cs.log \o @]
         ELSE LET b == execute_body(class, dt, dp, es.res.l, es.res.r, es.res.t,
                                    Stream(es.val, <<>>, 0), cfg, env, net) IN
              [b EXCEPT !.err = IF b.err # "" THEN cm_exit_exc(cs.gen, b.err)
                                ELSE cm_exit_ok(cs.gen),
                        !.log = cs.log \o es.res.log \o @]

----------------------------------------------------------------------------
(* The state machine.  An operation starts when none is on record and      *)
(* leaves its record; the caller takes the outcome (TaskDone) before the   *)
(* next one starts.                                                        *)

NoArgs == [none |-> TRUE]

EmptyFS == [p \in {} |-> Dir]

\* no operation is on record
Idle == [op |-> "idle", t |-> "", args |-> NoArgs, err |-> "", ret |-> NoRet,
         log |-> <<>>, pre |-> [l |-> EmptyFS, r |-> EmptyFS, t |-> {}]]

\* no step object is looked at
NoStep == [obj |-> [class |-> "None"], runs |-> 0]

\* the five branches of the pipeline etl_opa_v2 (extract_a .. load_e)
Branches == { "a", "b", "c", "d", "e" }

\* the tasks of the pipeline: the staging task, the cleanup task and, on each
\* branch, a download, a transform and a load task
mk_staging == <<"staging", "">>

cleanup == <<"cleanup_staging", "">>

extract(b) == <<"extract", b>>

transform_task(b) == <<"transform", b>>

load(b) == <<"load", b>>

Tasks ==
    { mk_staging, cleanup }
    \cup { extract(b) : b \in Branches }
    \cup { transform_task(b) : b \in Branches }
    \cup { load(b) : b \in Branches }

\* the tasks right before a task, had only the first chain been declared up
\* to the cleanup task
Upstream_first_chain(t) ==
    CASE t = mk_staging -> {}
      [] t[1] = "extract" -> { mk_staging }
      [] t[1] = "transform" -> { extract(t[2]) }
      [] t[1] = "load" -> { transform_task(t[2]) }
      [] t = cleanup -> { load("a") }

\* the tasks right before a task: mk_staging >> extract >> transform >> load
\* >> cleanup on each branch
Upstream(t) ==
    CASE t = mk_staging -> {}
      [] t[1] = "extract" -> { mk_staging }
      [] t[1] = "transform" -> { extract(t[2]) }
      [] t[1] = "load" -> { transform_task(t[2]) }
      [] t = cleanup -> { load(b) : b \in Branches }

\* no run of the pipeline is looked at
NoDag == [run |-> FALSE, state |-> [t \in Tasks |-> "none"], xcom |-> NoRet]

AllLocal == FileSystems(LocalPaths)

AllRemote == FileSystems(RemotePaths)

InitWith(locals, remotes) ==
    /\ local \in locals
    /\ remote \in remotes
    /\ temps = {}
    /\ last = Idle
    /\ step = NoStep
    /\ hooks = <<>>
    /\ dag = NoDag

\* the effects of the operation op of a hook or an operator of type t, given
\* args, that ended as res says
Effect(op, t, args, res) ==
    /\ last.op = "idle"
    /\ local' = res.l
    /\ remote' = res.r
    /\ temps' = res.t
    /\ last' = [op |-> op, t |-> t, args |-> args, err |-> res.err,
                ret |-> res.ret, log |-> res.log,
                pre |-> [l |-> local, r |-> remote, t |-> temps]]

\* an operation on a hook or a step object nobody keeps
Do(op, t, args, res) ==
    /\ Effect(op, t, args, res)
    /\ UNCHANGED <<step, hooks, dag>>

\* the caller (the scheduler, for a step) has taken the outcome of the
\* operation; the next operation can start
TaskDone ==
    /\ last.op # "idle"
    /\ last' = Idle
    /\ UNCHANGED <<local, remote, temps, step, hooks, dag>>

\* the remote paths a hook of type t is asked to fetch or store: for the
\* local hook they are local paths; the S3 hook does not look at them
PathsOf(t) ==
    CASE t = "local" -> LocalPaths
      [] t = "s3" -> { <<NmD, NmR1>> }
      [] OTHER -> { <<NmD>>, <<NmD, NmR1>> }

\* the local paths given along with them
LocalPathsOf(t) == IF t = "s3" THEN { <<NmA>> } ELSE LocalPaths

\* the paths and patterns an existence check is asked about
Patterns == { NmR1, <<"r", "*">>, <<"i", "*">>, <<"?", "2">> }

ExistsPaths(t) ==
    IF t = "sftp"
    THEN { <<NmD, pat>> : pat \in Patterns } \cup { <<NmD>>, << <<"*">> >> }
    ELSE { <<NmD, NmR1>> }

\* the paths a stream is opened on
OpenPaths(t) == IF t = "local" THEN { <<NmA>>, <<NmD, NmA>> } ELSE { <<NmD, NmR1>> }

\* the modes a stream is opened with
ModesOf(t) == IF t = "s3" THEN { <<"r">>, <<"w">> } ELSE Modes

\* the sequences of paths a cleanup step is given
CleanupPaths(t) ==
    IF t = "local" THEN UNION { [1..n -> LocalPaths] : n \in 0..MaxPaths }
    ELSE { << <<NmD, NmR1>>, <<NmD, NmR2>> >> }

\* whether the server can be connected to matters to the FTP and SFTP hooks
NetOf(t) == IF t \in {"ftp", "sftp"} THEN BOOLEAN ELSE {TRUE}

HookDownload ==
    /\ last.op = "idle"
    /\ \E t \in Types, replace \in BOOLEAN :
         \E rp \in PathsOf(t), lp \in LocalPathsOf(t), net \in NetOf(t) :
           Do("download", t, [remote |-> rp, local |-> lp, replace |-> replace, net |-> net],
              download(t, local, remote, temps, rp, lp, replace, net))

HookUpload ==
    /\ last.op = "idle"
    /\ \E t \in Types, replace \in BOOLEAN :
         \E rp \in PathsOf(t), lp \in LocalPathsOf(t), net \in NetOf(t) :
           Do("upload", t, [remote |-> rp, local |-> lp, replace |-> replace, net |-> net],
              upload(t, local, remote, temps, lp, rp, replace, net))

\* the folders a folder download makes stay within the depth bound
HookDownloadFolder ==
    /\ last.op = "idle"
    /\ \E t \in Types, replace \in BOOLEAN :
         \E rp \in PathsOf(t), lp \in LocalPathsOf(t), net \in NetOf(t) :
           LET res == download_folder(t, local, remote, temps, rp, lp, replace, net) IN
           /\ \A q \in DOMAIN res.l : Len(q) <= MaxDepth
           /\ Do("download_folder", t,
                 [remote |-> rp, local |-> lp, replace |-> replace, net |-> net], res)

HookFileExists ==
    /\ last.op = "idle"
    /\ \E t \in Types : \E p \in ExistsPaths(t), net \in NetOf(t) :
           Do("file_exists", t, [path |-> p, net |-> net],
              file_exists(t, local, remote, temps, p, net))

HookFolderExists ==
    /\ last.op = "idle"
    /\ \E t \in Types : \E p \in ExistsPaths(t), net \in NetOf(t) :
           Do("folder_exists", t, [path |-> p, net |-> net],
              folder_exists(t, local, remote, temps, p, net))

HookOpen ==
    /\ last.op = "idle"
    /\ \E t \in Types : \E mode \in ModesOf(t), p \in OpenPaths(t), net \in NetOf(t) :
           Do("open", t, [path |-> p, mode |-> mode, net |-> net],
              open_with(t, local, remote, temps, p, mode, net))

SensorPoke ==
    /\ last.op = "idle"
    /\ \E t \in Types : \E p \in ExistsPaths(t), net \in NetOf(t) :
           Do("check_source", t, [path |-> p, net |-> net],
              check_source(t, local, remote, temps, p, net))

FolderSensorPoke ==
    /\ last.op = "idle"
    /\ \E t \in Types : \E p \in ExistsPaths(t), net \in NetOf(t) :
           Do("check_source_folder", t, [path |-> p, net |-> net],
              check_source_folder(t, local, remote, temps, p, net))

CleanupExecute ==
    /\ last.op = "idle"
    /\ \E t \in Types : \E paths \in CleanupPaths(t) :
           Do("cleanup", t, [paths |-> paths],
              cleanup_execute(t, local, remote, temps, paths))

\* a download step with a destination path (the temp directory plays no
\* part), or without one (the source is never reached)
FileDownloadExecute ==
    /\ last.op = "idle"
    /\ \E t \in Types, tmpok \in BOOLEAN :
         \E sp \in PathsOf(t), dest \in LocalPathsOf(t) \cup {<<>>}, net \in NetOf(t) :
           /\ dest = <<>> => net
           /\ dest # <<>> => tmpok
           /\ (dest = <<>> /\ tmpok) => Cardinality(temps) < MaxTemps
           /\ Do("download_execute", t,
                 [source_path |-> sp, dest_path |-> dest, net |-> net, tmpok |-> tmpok],
                 download_execute(t, local, remote, temps, sp, dest, net, tmpok))

\* the folder variant; the folders it makes stay within the depth bound
FolderDownloadExecute ==
    /\ last.op = "idle"
    /\ \E t \in Types, tmpok \in BOOLEAN :
         \E sp \in PathsOf(t), dest \in LocalPathsOf(t) \cup {<<>>}, net \in NetOf(t) :
           LET res == folder_download_execute(t, local, remote, temps, sp, dest, net, tmpok) IN
           /\ dest = <<>> => net
           /\ dest # <<>> => tmpok
           /\ (dest = <<>> /\ tmpok) => Cardinality(temps) < MaxTemps
           /\ \A q \in DOMAIN res.l : Len(q) <= MaxDepth
           /\ Do("folder_download_execute", t,
                 [source_path |-> sp, dest_path |-> dest, net |-> net, tmpok |-> tmpok],
                 res)

\* a transform command's configuration and what the environment makes of it
Cfgs == [use_stdin : BOOLEAN, use_stdout : BOOLEAN]

NoCfg == [use_stdin |-> TRUE, use_stdout |-> TRUE]

Env(script, rc, tmpfail) ==
    [script |-> script, rc |-> rc, stderr |-> IF rc = 0 THEN "" ELSE "boom",
     tmpfail |-> tmpfail]

TransferExecute ==
    /\ last.op = "idle"
    /\ \E st \in Types, dt \in Types :
         \E sp \in OpenPaths(st), dp \in OpenPaths(dt), net \in NetOf(dt) :
           Do("execute", "FileTransferOperator",
              [source_type |-> st, source_path |-> sp, dest_type |-> dt, dest_path |-> dp,
               cfg |-> NoCfg, env |-> Env("echo", 0, 0), net |-> net],
              execute("FileTransferOperator", st, sp, dt, dp, local, remote, temps,
                      NoCfg, Env("echo", 0, 0), net))

TransformExecute ==
    /\ last.op = "idle"
    /\ \E st \in Types, dt \in Types, rc \in ExitCodes :
         \E sp \in OpenPaths(st), dp \in OpenPaths(dt), net \in NetOf(dt) :
           Do("execute", "FileTransformOperator",
              [source_type |-> st, source_path |-> sp, dest_type |-> dt, dest_path |-> dp,
               cfg |-> NoCfg, env |-> Env("echo", rc, 0), net |-> net],
              execute("FileTransformOperator", st, sp, dt, dp, local, remote, temps,
                      NoCfg, Env("echo", rc, 0), net))

\* the streams handed to a direct call of transfer
StreamContents == UNION { [1..n -> {"x", "y"}] : n \in 0..MaxLines }

\* transfer(source, dest) of either class on two file-like objects, as a
\* caller that holds open streams invokes it
TransferCall ==
    /\ last.op = "idle"
    /\ \E class \in {"FileTransferOperator", "FileTransformOperator"},
          data \in StreamContents, failAt \in 0..MaxLines, cfg \in Cfgs,
          script \in Scripts, rc \in ExitCodes, tmpfail \in 0..2 :
           /\ class = "FileTransferOperator" =>
                 (cfg = NoCfg /\ script = "echo" /\ rc = 0 /\ tmpfail = 0)
           /\ tmpfail # 0 => (script = "echo" /\ rc = 0 /\ failAt = 0)
           /\ LET source == Stream("stream", data, 0)
                  dest == Stream("stream", <<>>, failAt)
                  tr == transfer(class, source, dest, temps, cfg, Env(script, rc, tmpfail))
              IN Do("transfer", class,
                    [source |-> source, dest |-> dest, cfg |-> cfg,
                     env |-> Env(script, rc, tmpfail)],
                    Res(local, remote, tr.t, tr.err, [dest |-> tr.dest, msg |-> tr.msg],
                        tr.log))

----------------------------------------------------------------------------
(* Step objects and hook instances.  An operator object is constructed     *)
(* once and its execute (a sensor's poke) is called once per run; a hook   *)
(* instance is what calling a hook class makes.  FTPHook.__init__ (which   *)
(* PySFTPHook inherits) sets conn to None and makes no connection.         *)

DownloadClasses == { "FileDownloadOperator", "FolderDownloadOperator" }

TransferClasses == { "FileTransferOperator", "FileTransformOperator" }

SensorClasses == { "FileAvailabilitySensor", "FolderAvailabilitySensor" }

\* the attributes __init__ gives an operator object; sp is the attribute the
\* transform method assigns
Obj(class, st, sp, dt, dp, paths) ==
    [class |-> class, source_type |-> st, source_path |-> sp, dest_type |-> dt,
     dest_path |-> dp, conn_type |-> st, paths |-> paths, sp |-> "None"]

\* the operator objects looked at
Objs ==
    { Obj(c, t, IF t = "local" THEN <<NmA>> ELSE <<NmD, NmR1>>, "local", dp, <<>>) :
        c \in DownloadClasses, t \in {"local", "sftp"}, dp \in { <<>>, <<NmD>> } }
    \cup { Obj(c, st, IF st = "local" THEN <<NmA>> ELSE <<NmD, NmR1>>,
               dt, IF dt = "local" THEN <<NmD>> ELSE <<NmD, NmR1>>, <<>>) :
             c \in TransferClasses, st \in {"local", "ftp"}, dt \in {"local", "ftp"} }
    \cup { Obj("CleanupOperator", t, <<>>, "local", <<>>, << <<NmA>>, <<NmD>> >>) :
             t \in {"local", "ftp"} }
    \cup { Obj(c, t, <<NmD, NmR1>>, "local", <<>>, <<>>) :
             c \in SensorClasses, t \in {"local", "sftp"} }

\* execute(context), or poke(context), of the operator object
step_execute(obj, l, r, tm, net, tmpok) ==
    CASE obj.class = "FileDownloadOperator" ->
           download_execute(obj.source_type, l, r, tm, obj.source_path, obj.dest_path,
                            net, tmpok)
      [] obj.class = "FolderDownloadOperator" ->
           folder_download_execute(obj.source_type, l, r, tm, obj.source_path,
                                   obj.dest_path, net, tmpok)
      [] obj.class \in TransferClasses ->
           execute(obj.class, obj.source_type, obj.source_path, obj.dest_type,
                   obj.dest_path, l, r, tm, [use_stdin |-> TRUE, use_stdout |-> TRUE],
                   [script |-> "echo", rc |-> 0, stderr |-> "", tmpfail |-> 0], net)
      [] obj.class = "CleanupOperator" ->
           cleanup_execute(obj.conn_type, l, r, tm, obj.paths)
      [] obj.class = "FileAvailabilitySensor" ->
           check_source(obj.source_type, l, r, tm, obj.source_path, net)
      [] obj.class = "FolderAvailabilitySensor" ->
           check_source_folder(obj.source_type, l, r, tm, obj.source_path, net)

\* an assignment of the temporary path that happens
assign_dest_path_done(obj, tm, tmpok) ==
    IF tmpok THEN [obj EXCEPT !.dest_path = << <<"t">> >>] ELSE obj

\* self.dest_path = dest.name in create_temp_dest: dest is the pair mkstemp
\* returned, dest.name raises, the assignment does not happen
assign_dest_path(obj, tm, tmpok) == obj

\* the attributes of the operator object after the run that ended as res
\* says: transform, when reached, has assigned self.sp
obj_after(obj, tm, tmpok, res) ==
    LET o == IF obj.class \in DownloadClasses /\ obj.dest_path = <<>>
             THEN assign_dest_path(obj, tm, tmpok) ELSE obj
        ran == { i \in 1..Len(res.log) : res.log[i][1] = "run" }
    IN IF ran = {} THEN o ELSE [o EXCEPT !.sp = "CompletedProcess"]

\* the hook classes the run calls, in the order of the calls: a download
\* step does not get to its hook when create_temp_dest raised; a transfer
\* step calls the destination's class once the source has been entered
hook_calls(obj, l, r, tm, net) ==
    CASE obj.class \in DownloadClasses ->
           IF obj.dest_path = <<>> THEN <<>> ELSE <<obj.source_type>>
      [] obj.class \in TransferClasses ->
           LET cs == open_call(obj.source_type, l, obj.source_path, <<"r", "b">>) IN
           IF cs.err # "" THEN <<obj.source_type>>
           ELSE IF cm_enter(obj.source_type, cs.gen, cs.l, r, tm, obj.source_path, net).res.err # ""
           THEN <<obj.source_type>>
           ELSE <<obj.source_type, obj.dest_type>>
      [] obj.class = "CleanupOperator" -> <<obj.conn_type>>
      [] OTHER -> <<obj.source_type>>

\* a hook instance as its class's __init__ leaves it: no connection
Hook(t, run) ==
    [type |-> t, made_in |-> run, used_in |-> {}, conn |-> FALSE, connects |-> 0,
     calls |-> 0]

\* a run that takes an instance of the class an earlier run made, if any
new_hook_shared(hs, t, run) ==
    IF \E i \in 1..Len(hs) : hs[i].type = t
    THEN LET i == CHOOSE i \in 1..Len(hs) : hs[i].type = t IN
         [hs EXCEPT ![i].used_in = @ \cup {run}]
    ELSE Append(hs, [Hook(t, run) EXCEPT !.used_in = {run}])

\* self.SourceHook(self.source_conn_id) and the like in run number run: a new
\* instance, which this run uses
new_hook(hs, t, run) == Append(hs, [Hook(t, run) EXCEPT !.used_in = {run}])

\* the instances after the run has called the classes in ts
RECURSIVE new_hooks(_, _, _)
new_hooks(hs, ts, run) ==
    IF ts = <<>> THEN hs ELSE new_hooks(new_hook(hs, Head(ts), run), Tail(ts), run)

\* a get_conn that makes a connection at every call
get_conn_uncached(h, net) ==
    IF net THEN [h EXCEPT !.conn = TRUE, !.connects = @ + 1] ELSE h

\* get_conn() of an FTP or SFTP hook instance: the instance's connection,
\* made (when the server can be reached) if the instance has none
get_conn(h, net) ==
    IF h.conn THEN h
    ELSE IF net THEN [h EXCEPT !.conn = TRUE, !.connects = @ + 1]
    ELSE h

\* an I/O method of a hook instance: those of the FTP and SFTP hooks start
\* with get_conn; the local hook has no connection; the methods of the S3
\* hook raise (NotImplementedError, or NameError in open) before any I/O
hook_io(h, net) == IF h.type \in {"ftp", "sftp"} THEN get_conn(h, net) ELSE h

\* the run's last instance has made the connections the run's record shows
connect_last(hs, log) ==
    IF hs = <<>> \/ { i \in 1..Len(log) : log[i][1] = "connect" } = {} THEN hs
    ELSE [hs EXCEPT ![Len(hs)] = hook_io(@, TRUE)]

\* one run of the step object
RunStep ==
    /\ last.op = "idle"
    /\ step # NoStep
    /\ step.runs < MaxRuns
    /\ \E net \in BOOLEAN, tmpok \in BOOLEAN :
         LET obj == step.obj
             res == step_execute(obj, local, remote, temps, net, tmpok)
         IN
         /\ ~net => (obj.source_type \in {"ftp", "sftp"} \/ obj.dest_type = "ftp")
         /\ ~tmpok => (obj.class \in DownloadClasses /\ obj.dest_path = <<>> /\ net)
         /\ Cardinality(res.t) <= MaxTemps
         /\ \A q \in DOMAIN res.l : Len(q) <= MaxDepth
         /\ Effect("run", obj.class, [obj |-> obj, run |-> step.runs + 1, net |-> net,
                                      tmpok |-> tmpok], res)
         /\ step' = [obj |-> obj_after(obj, temps, tmpok, res), runs |-> step.runs + 1]
         /\ hooks' = connect_last(new_hooks(hooks, hook_calls(obj, local, remote, temps, net),
                                            step.runs + 1),
                                  res.log)
         /\ UNCHANGED dag

\* a caller makes a hook instance through the registry
HookConstruct ==
    /\ last.op = "idle"
    /\ step = NoStep
    /\ Len(hooks) < MaxHooks
    /\ \E t \in Types : hooks' = Append(hooks, Hook(t, 0))
    /\ UNCHANGED <<local, remote, temps, last, step, dag>>

\* a caller's I/O call on a hook instance it made (an existence check, which
\* changes no file): the call gets the connection with get_conn
HookCall ==
    /\ last.op = "idle"
    /\ \E i \in 1..Len(hooks), net \in BOOLEAN :
         /\ hooks[i].made_in = 0
         /\ hooks[i].calls < MaxCalls
         /\ hooks' = [hooks EXCEPT ![i] = [hook_io(@, net) EXCEPT !.calls = @ + 1]]
    /\ UNCHANGED <<local, remote, temps, last, step, dag>>

\* the steps' runs start from a step object and few files
InitRuns ==
    /\ local \in FileSystems({ <<NmA>>, <<NmD>> })
    /\ remote \in FileSystems({ <<NmD>>, <<NmD, NmR1>> })
    /\ temps = {}
    /\ last = Idle
    /\ step \in { [obj |-> o, runs |-> 0] : o \in Objs }
    /\ hooks = <<>>
    /\ dag = NoDag

----------------------------------------------------------------------------
(* A run of the pipeline etl_opa_v2.  The scheduler starts a task when all *)
(* the tasks right before it succeeded and gives up a task when one of     *)
(* them failed or was given up; no task is retried (retries is 0).         *)

\* the names of the files: br63trf.<name> on the server and in the staging
\* directory, <name>.csv in the staging directory
Nm_os13sd == <<"o", "s", "1", "3", "s", "d">>

Nm_buildcod == <<"b", "u", "i", "l", "d", "c", "o", "d">>

Nm_stcode == <<"s", "t", "c", "o", "d", "e">>

Nm_offpr == <<"o", "f", "f", "p", "r">>

Nm_nicrt4wb == <<"n", "i", "c", "r", "t", "4", "w", "b">>

Nm_properties_csv == <<"p", "r", "o", "p", "e", "r", "t", "i", "e", "s">>

Nm_building_codes_csv == <<"b", "u", "i", "l", "d", "i", "n", "g", "_", "c", "o", "d", "e", "s">>

Nm_street_codes_csv == <<"s", "t", "r", "e", "e", "t", "_", "c", "o", "d", "e", "s">>

Nm_off_property_csv == <<"o", "f", "f", "_", "p", "r", "o", "p", "e", "r", "t", "y">>

Nm_assessment_history_csv == <<"a", "s", "s", "e", "s", "s", "m", "e", "n", "t", "_", "h", "i", "s", "t", "o", "r", "y">>

NmOPA == <<"O", "P", "A">>

NmStaging == <<"t", "m", "p">>

\* the file a download task fetches, under both its names
SourceName(b) ==
    CASE b = "a" -> Nm_os13sd
      [] b = "b" -> Nm_buildcod
      [] b = "c" -> Nm_stcode
      [] b = "d" -> Nm_offpr
      [] b = "e" -> Nm_nicrt4wb

\* the file the command of a transform task reads with cat
TransformIn(b) ==
    CASE b = "a" -> Nm_os13sd
      [] b = "b" -> Nm_buildcod
      [] b = "c" -> Nm_buildcod
      [] b = "d" -> Nm_offpr
      [] b = "e" -> Nm_nicrt4wb

\* the file the command of a transform task redirects its output to
TransformOut(b) ==
    CASE b = "a" -> Nm_properties_csv
      [] b = "b" -> Nm_building_codes_csv
      [] b = "c" -> Nm_building_codes_csv
      [] b = "d" -> Nm_off_property_csv
      [] b = "e" -> Nm_assessment_history_csv

\* the csv_path of a load task
CsvPath(b) ==
    CASE b = "a" -> Nm_properties_csv
      [] b = "b" -> Nm_building_codes_csv
      [] b = "c" -> Nm_street_codes_csv
      [] b = "d" -> Nm_off_property_csv
      [] b = "e" -> Nm_assessment_history_csv

\* the names of the files in the staging directory a task writes: a download
\* its dest_path, a transform the file its command redirects to
Writes(t) ==
    CASE t[1] = "extract" -> { SourceName(t[2]) }
      [] t[1] = "transform" -> { TransformOut(t[2]) }
      [] OTHER -> {}

\* the names of the files in the staging directory a task reads: a transform
\* the file its command gives to cat, a load its csv_path
Reads(t) ==
    CASE t[1] = "transform" -> { TransformIn(t[2]) }
      [] t[1] = "load" -> { CsvPath(t[2]) }
      [] OTHER -> {}

\* the tasks a task comes after: some chain of >> leads from them to it
RECURSIVE Before(_)
Before(t) == Upstream(t) \cup UNION { Before(u) : u \in Upstream(t) }

\* the server the downloads connect to holds the five files
OpaServer ==
    [q \in { <<NmOPA>> } \cup { <<NmOPA, SourceName(b)>> : b \in Branches } |->
       IF q = <<NmOPA>> THEN Dir ELSE File(<<"x">>)]

\* '{{ ti.xcom_pull("staging") }}/name' rendered: the value the staging task
\* returned, then the name
Rendered(name) == Append(dag.xcom, name)

\* mkdir(), the callable of the staging task: tempfile.mkdtemp() makes a new
\* directory and returns its path, or raises
mkdir(l, r, tm, ok) ==
    IF ok
    THEN Res([q \in DOMAIN l \cup { <<NmStaging>> } |->
                IF q = <<NmStaging>> THEN Dir ELSE l[q]],
             r, tm, "", <<NmStaging>>, <<>>)
    ELSE Res(l, r, tm, "OSError", NoRet, <<>>)

\* the bash_command of a transform task, cat in | program > out: the shell
\* opens out for writing first; the status of the pipeline is the status of
\* the program, whatever cat did.  What the program prints is one line here.
bash_command(l, r, tm, in, out, ok) ==
    IF OpenErr(l, out, TRUE) # ""
    THEN Res(l, r, tm, "AirflowException", NoRet, <<>>)
    ELSE IF ok
    THEN Res(WriteFile(l, out, <<"csv">>), r, tm, "", NoRet,
             << <<"write", out>>, <<"read", in>> >>)
    ELSE Res(WriteFile(l, out, <<>>), r, tm, "AirflowException", NoRet,
             << <<"write", out>>, <<"read", in>> >>)

\* a load task reads csv_path and fills a table of the warehouse, which is
\* not part of this world; the task succeeds or fails
load_csv(l, r, tm, csv, ok) ==
    Res(l, r, tm, IF ok THEN "" ELSE "AirflowException", NoRet,
        << <<"read", csv>> >>)

\* a fresh run: nothing is staged, every task waits
InitDag ==
    /\ local = EmptyFS
    /\ remote = OpaServer
    /\ temps = {}
    /\ last = Idle
    /\ step = NoStep
    /\ hooks = <<>>
    /\ dag = [run |-> TRUE, state |-> [t \in Tasks |-> "none"], xcom |-> NoRet]

\* the scheduler starts a task: all the tasks right before it succeeded
\* (the trigger rule all_success, which no task of the pipeline changes)
DagStart ==
    /\ dag.run
    /\ \E t \in Tasks :
         /\ dag.state[t] = "none"
         /\ \A u \in Upstream(t) : dag.state[u] = "success"
         /\ dag' = [dag EXCEPT !.state[t] = "running"]
    /\ UNCHANGED <<local, remote, temps, last, step, hooks>>

\* the scheduler gives a task up: a task right before it failed or was
\* given up
DagUpstreamFailed ==
    /\ dag.run
    /\ \E t \in Tasks :
         /\ dag.state[t] = "none"
         /\ \E u \in Upstream(t) : dag.state[u] \in { "failed", "upstream_failed" }
         /\ dag' = [dag EXCEPT !.state[t] = "upstream_failed"]
    /\ UNCHANGED <<local, remote, temps, last, step, hooks>>

\* a running task ends as res says; the value the staging task returned is
\* kept for the templates of the other tasks
DagFinish(t, res) ==
    /\ dag.run
    /\ dag.state[t] = "running"
    /\ local' = res.l
    /\ remote' = res.r
    /\ temps' = res.t
    /\ dag' = [dag EXCEPT !.state[t] = IF res.err = "" THEN "success" ELSE "failed",
                          !.xcom = IF t = mk_staging /\ res.err = "" THEN res.ret ELSE @]
    /\ UNCHANGED <<last, step, hooks>>

DagStaging ==
    \E ok \in BOOLEAN : DagFinish(mk_staging, mkdir(local, remote, temps, ok))

DagExtract ==
    \E b \in Branches, net \in BOOLEAN :
      DagFinish(extract(b),
                download_execute("sftp", local, remote, temps,
                                 <<NmOPA, SourceName(b)>>, Rendered(SourceName(b)),
                                 net, TRUE))

DagTransform ==
    \E b \in Branches, ok \in BOOLEAN :
      DagFinish(transform_task(b),
                bash_command(local, remote, temps, Rendered(TransformIn(b)),
                             Rendered(TransformOut(b)), ok))

DagLoad ==
    \E b \in Branches, ok \in BOOLEAN :
      DagFinish(load(b), load_csv(local, remote, temps, Rendered(CsvPath(b)), ok))

DagCleanup ==
    DagFinish(cleanup, cleanup_execute("local", local, remote, temps, << dag.xcom >>))

Init == InitWith(AllLocal, AllRemote) \/ InitRuns \/ InitDag

Next ==
    \/ HookDownload
    \/ HookUpload
    \/ HookDownloadFolder
    \/ HookFileExists
    \/ HookFolderExists
    \/ HookOpen
    \/ SensorPoke
    \/ FolderSensorPoke
    \/ CleanupExecute
    \/ FileDownloadExecute
    \/ FolderDownloadExecute
    \/ TransferExecute
    \/ TransformExecute
    \/ TransferCall
    \/ RunStep
    \/ HookConstruct
    \/ HookCall
    \/ DagStart
    \/ DagUpstreamFailed
    \/ DagStaging
    \/ DagExtract
    \/ DagTransform
    \/ DagLoad
    \/ DagCleanup
    \/ TaskDone

Spec == Init /\ [][Next]_vars

----------------------------------------------------------------------------
(* The components on their own: the part of the world a component does     *)
(* not touch is held fixed.                                                *)

\* the hooks
NextBackend ==
    HookDownload \/ HookUpload \/ HookFileExists \/ HookFolderExists \/ HookOpen
    \/ TaskDone

SpecBackend == InitWith(AllLocal, AllRemote) /\ [][NextBackend]_vars

\* the hooks' folder download
NextFolder == HookDownloadFolder \/ TaskDone

SpecFolder == InitWith(AllLocal, AllRemote) /\ [][NextFolder]_vars

\* the runs of a step object
NextRuns == RunStep \/ TaskDone

SpecRuns == InitRuns /\ [][NextRuns]_vars

\* a caller's hook instances
NextConn == HookConstruct \/ HookCall

SpecConn == InitWith({EmptyFS}, {EmptyFS}) /\ [][NextConn]_vars

\* the cleanup step, which works on the local files
NextCleanup == CleanupExecute \/ TaskDone

SpecCleanup == InitWith(AllLocal, {EmptyFS}) /\ [][NextCleanup]_vars

\* the download steps, which fetch into the local files
NextDownloadSteps == FileDownloadExecute \/ FolderDownloadExecute \/ TaskDone

SpecDownloadSteps ==
    InitWith(AllLocal, {r \in AllRemote : IsDir(r, <<NmD>>)}) /\ [][NextDownloadSteps]_vars

\* the sensors, which read the server
NextSensor == SensorPoke \/ FolderSensorPoke \/ RunStep \/ TaskDone

\* a sensor made for one check, or a sensor object that is run again
InitSensor ==
    \/ InitWith({EmptyFS}, AllRemote)
    \/ /\ local = EmptyFS
       /\ remote \in AllRemote
       /\ temps = {}
       /\ last = Idle
       /\ step \in { [obj |-> o, runs |-> 0] : o \in { o \in Objs : o.class \in SensorClasses } }
       /\ hooks = <<>>
       /\ dag = NoDag

SpecSensor == InitSensor /\ [][NextSensor]_vars

\* a run of the pipeline etl_opa_v2
NextDag ==
    \/ DagStart
    \/ DagUpstreamFailed
    \/ DagStaging
    \/ DagExtract
    \/ DagTransform
    \/ DagLoad
    \/ DagCleanup

SpecDag == InitDag /\ [][NextDag]_vars

\* the transfer and transform steps
NextTransfer == TransferExecute \/ TransformExecute \/ TransferCall \/ TaskDone

SpecTransfer == InitWith(AllLocal, FileSystems({<<NmD>>})) /\ [][NextTransfer]_vars

----------------------------------------------------------------------------
(* Properties of the transfer and transform steps (SpecTransfer) *)

\* the events of the given kind in the record of the last operation
Events(kind) == { i \in 1..Len(last.log) : last.log[i][1] = kind }

\* the last operation was transfer(source, dest) of FileTransformOperator and
\* its command ran and exited with a status other than 0
TransformExitedNonZero ==
    /\ last.op = "transfer"
    /\ last.t = "FileTransformOperator"
    /\ last.args.env.tmpfail = 0
    /\ last.args.env.rc # 0

\* C1: when the transform command of a FileTransformOperator exits with a
\* non-zero status, the destination is left as it was (nothing is written to
\* it) and the step fails with an AirflowException that carries the
\* command's standard-error text.
C1_TransformFailureLeavesDest ==
    TransformExitedNonZero
    => /\ last.ret.dest = last.args.dest
       /\ last.err = "AirflowException"
       /\ last.ret.msg = <<"Transform script failed ", last.args.env.stderr>>

\* the command exited with status 1 and the step ended with a TypeError
C1_TypeErrorRaised ==
    /\ TransformExitedNonZero
    /\ last.args.env.rc = 1
    /\ last.err = "TypeError"
    /\ last.ret.msg # <<"Transform script failed ", last.args.env.stderr>>

\* C3: when a transfer or a whole step of FileTransformOperator has ended,
\* by success or by any failure, the temp directory holds what it held
\* before: none of the temporary files the step made exists.
C3_TempFilesRemoved ==
    (last.op \in {"transfer", "execute"} /\ last.t = "FileTransformOperator")
    => /\ temps = last.pre.t
       /\ \A i \in Events("mktemp") : last.log[i][2] \notin temps

\* both temporary files were made, the command succeeded, a chunk reached the
\* destination and the next write raised
C3_CopyFailedAfterTransform ==
    /\ last.op = "transfer"
    /\ last.t = "FileTransformOperator"
    /\ Cardinality(Events("mktemp")) = 2
    /\ Events("write_dest") # {}
    /\ last.err = "IOError"
    /\ temps = {}

\* C10: when FileTransferOperator.execute has ended, by success or by any
\* failure, every file it opened has been closed and every connection it
\* made has been closed.
C10_StreamsClosed ==
    (last.op = "execute" /\ last.t = "FileTransferOperator")
    => /\ \A i \in Events("open_local") :
            \E j \in Events("close_local") : j > i /\ last.log[j][2] = last.log[i][2]
       /\ \A i \in Events("connect") : \E j \in Events("disconnect") : j > i

\* the step opened its local source and its local destination, failed, and
\* closed neither
C10_LocalFilesLeftOpen ==
    /\ last.op = "execute"
    /\ last.t = "FileTransferOperator"
    /\ Cardinality(Events("open_local")) = 2
    /\ Events("close_local") = {}
    /\ last.err # ""

----------------------------------------------------------------------------
(* Properties of the hooks (SpecBackend) *)

\* C2: download(remote, local, replace=False) of the local, FTP and SFTP
\* hooks, when the local path exists, raises FileExistsError and leaves the
\* local file system as it was: the file's content, every other path, no
\* directory made.
C2_DownloadNoReplaceKeepsLocal ==
    (/\ last.op = "download"
     /\ last.t \in {"local", "ftp", "sftp"}
     /\ ~last.args.replace
     /\ Exists(last.pre.l, last.args.local))
    => /\ last.err = "FileExistsError"
       /\ local = last.pre.l

\* an SFTP download without replace onto a local file, the server reachable
\* and holding a file of another content
C2_RefusedOverExistingFile ==
    /\ last.op = "download"
    /\ last.t = "sftp"
    /\ ~last.args.replace
    /\ last.args.net
    /\ IsFile(last.pre.l, last.args.local)
    /\ IsFile(remote, last.args.remote)
    /\ remote[last.args.remote].data # last.pre.l[last.args.local].data
    /\ last.err = "FileExistsError"
    /\ local[last.args.local] = last.pre.l[last.args.local]

\* C6: hook.open(path, mode) of the FTP and SFTP hooks raises
\* NotImplementedError at the call, before any network traffic, for every
\* mode that asks for reading and writing at once ('+') and for every append
\* mode; for every other mode the call raises or, the server reachable and
\* holding what the mode needs, the with statement binds a stream.
C6_UnsupportedModesRefused ==
    (last.op = "open" /\ last.t \in {"ftp", "sftp"})
    => IF HasChar(last.args.mode, "+") \/ StartsWith(last.args.mode, <<"a">>)
       THEN /\ last.err = "NotImplementedError"
            /\ last.ret.at = "call"
            /\ last.log = <<>>
       ELSE (/\ last.ret.at # "call"
             /\ last.args.net
             /\ IsDir(last.pre.r, DirName(last.args.path))
             /\ ~IsDir(last.pre.r, last.args.path)
             /\ StartsWith(last.args.mode, <<"w">>) \/ IsFile(last.pre.r, last.args.path))
            => (last.err = "" /\ last.ret.val = "BytesIO")

\* mode 'w+' was accepted by the FTP hook and the server's file emptied
C6_ReadWriteModeAccepted ==
    /\ last.op = "open"
    /\ last.t = "ftp"
    /\ last.args.mode = <<"w", "+">>
    /\ last.err = ""
    /\ IsFile(last.pre.r, last.args.path)
    /\ last.pre.r[last.args.path].data # <<>>
    /\ remote[last.args.path].data = <<>>

\* the entries of the server's directory DirName(p) of the given kind whose
\* name matches the pattern BaseName(p)
Matching(fs, p, kind) ==
    { q \in DOMAIN fs : /\ DirName(q) = DirName(p)
                        /\ fs[q].kind = kind
                        /\ fnmatch(BaseName(q), BaseName(p)) }

\* C8: on an FTP or SFTP hook whose server is reachable, file_exists(P)
\* returns True exactly when P's directory lists a regular file matching
\* P's base-name pattern, and folder_exists(P) exactly when it lists a
\* matching directory.
C8_ExistsIffListingMatches ==
    (/\ last.op \in {"file_exists", "folder_exists"}
     /\ last.t \in {"ftp", "sftp"}
     /\ last.args.net)
    => /\ last.err = ""
       /\ last.ret = (Matching(remote, last.args.path,
                               IF last.op = "file_exists" THEN "file" ELSE "dir") # {})

\* file_exists of the FTP hook raised NotImplementedError for a file the
\* server holds
C8_FtpNotImplemented ==
    /\ last.op = "file_exists"
    /\ last.t = "ftp"
    /\ last.args.net
    /\ Matching(remote, last.args.path, "file") # {}
    /\ last.err = "NotImplementedError"

\* the path an upload or a download of the local hook writes, and the file
\* system it lies in
TargetOf(rec) == IF rec.op = "upload" THEN rec.args.remote ELSE rec.args.local

TargetFS(t, l, r) == IF t = "local" THEN l ELSE r

\* C9: for a hook of any type and a path P that does not exist, file_exists(P)
\* returns False, and after an upload to P (or a download of the local hook
\* to P) that succeeded, file_exists(P) returns True.
C9_ExistsAfterUpload ==
    (/\ last.op \in {"upload", "download"}
     /\ last.op = "download" => last.t = "local"
     /\ last.err = ""
     /\ ~Exists(TargetFS(last.t, last.pre.l, last.pre.r), TargetOf(last)))
    => LET before == file_exists(last.t, last.pre.l, last.pre.r, last.pre.t,
                                 TargetOf(last), TRUE)
           after == file_exists(last.t, local, remote, temps, TargetOf(last), TRUE)
       IN /\ before.err = ""
          /\ before.ret = FALSE
          /\ after.err = ""
          /\ after.ret = TRUE

\* an upload of the local hook made the file and file_exists on it raises
C9_LocalExistsNotImplemented ==
    /\ last.op = "upload"
    /\ last.t = "local"
    /\ last.err = ""
    /\ ~Exists(last.pre.l, last.args.remote)
    /\ IsFile(local, last.args.remote)
    /\ file_exists("local", local, remote, temps, last.args.remote, TRUE).err
         = "NotImplementedError"

----------------------------------------------------------------------------
(* Properties of the cleanup step (SpecCleanup) *)

\* C4: CleanupOperator.execute attempts the paths in the order given, each
\* once, and stops at the first delete that raises: the paths before it
\* have been deleted (with everything below them, and nothing else), no
\* path after it has been attempted, and the exception leaves the step.
C4_CleanupFailFast ==
    last.op = "cleanup"
    => LET paths == last.args.paths
           n == Len(last.log)
           Deleted(q) == \E i \in 1..n : last.log[i][3] = "done" /\ Under(q, paths[i])
       IN /\ n <= Len(paths)
          /\ \A i \in 1..n : last.log[i][1] = "delete" /\ last.log[i][2] = paths[i]
          /\ \A i \in 1..n : last.log[i][3] = "done" <=> (i < n \/ last.err = "")
          /\ last.err = "" => n = Len(paths)
          /\ last.err # "" => n >= 1
          /\ DOMAIN local = { q \in DOMAIN last.pre.l : ~Deleted(q) }
          /\ \A q \in DOMAIN local : local[q] = last.pre.l[q]

\* of three paths the first was deleted, the second raised, and the third,
\* which exists, was not attempted
C4_StoppedAtSecondOfThree ==
    /\ last.op = "cleanup"
    /\ last.t = "local"
    /\ Len(last.args.paths) = 3
    /\ Len(last.log) = 2
    /\ last.log[1][3] = "done"
    /\ last.log[2][3] = "raised"
    /\ last.err = "FileNotFoundError"
    /\ Exists(last.pre.l, last.args.paths[1])
    /\ ~Exists(local, last.args.paths[1])
    /\ Exists(local, last.args.paths[3])

----------------------------------------------------------------------------
(* Properties of the download steps (SpecDownloadSteps) *)

\* C5: a file or folder download step given no destination path makes a
\* new temporary path, downloads the source to it and returns it; a step
\* given a destination path that ends without an exception returns that
\* path.
C5_DownloadStepReturnsDest ==
    (/\ last.op \in {"download_execute", "folder_download_execute"}
     /\ last.t \in {"local", "ftp", "sftp"}
     /\ last.args.net
     /\ last.args.tmpok)
    => IF last.args.dest_path = <<>>
       THEN LET src == Lookup(TargetFS(last.t, last.pre.l, last.pre.r),
                              last.args.source_path)
                wanted == IF last.op = "download_execute" THEN "file" ELSE "dir"
            IN src.kind = wanted
               => /\ last.err = ""
                  /\ \E id \in temps \ last.pre.t : last.ret = <<"tmp", id>>
       ELSE last.err = "" => last.ret = last.args.dest_path

\* a file download step without a destination path, its source a file the
\* reachable server holds, ended with a NameError and left a temporary file
C5_NoDestRaisesNameError ==
    /\ last.op = "download_execute"
    /\ last.t = "sftp"
    /\ last.args.dest_path = <<>>
    /\ last.args.net
    /\ last.args.tmpok
    /\ IsFile(remote, last.args.source_path)
    /\ last.err = "NameError"
    /\ temps # last.pre.t
    /\ local = last.pre.l

----------------------------------------------------------------------------
(* Properties of the sensors (SpecSensor) *)

\* C7: the check of a file or folder sensor on an SFTP source returns False
\* without raising whenever nothing matches the path, the path's directory
\* missing included, and raises only when the server cannot be connected to.
C7_SensorFalseOnNotFound ==
    (last.op \in {"check_source", "check_source_folder"} /\ last.t = "sftp")
    => /\ last.err # "" => ~last.args.net
       /\ (/\ last.args.net
           /\ Matching(remote, last.args.path,
                       IF last.op = "check_source" THEN "file" ELSE "dir") = {})
          => (last.err = "" /\ last.ret = FALSE)

\* the server was reachable, the directory of the path missing, and the
\* check raised IOError
C7_MissingParentRaises ==
    /\ last.op = "check_source"
    /\ last.t = "sftp"
    /\ last.args.net
    /\ ~Exists(remote, DirName(last.args.path))
    /\ last.err = "IOError"

----------------------------------------------------------------------------
(* Properties of the hooks' folder download (SpecFolder) *)

\* the tree at p: what lies at and below p, by the path relative to p
Tree(fs, p) ==
    [ s \in { SubSeq(q, Len(p) + 1, Len(q)) : q \in { q \in DOMAIN fs : Under(q, p) } }
        |-> fs[p \o s] ]

\* C11: download_folder(remote, local, replace) of the local, FTP and SFTP
\* hooks, when local exists: with replace, a call that succeeds leaves at
\* local exactly the remote tree (nothing of the old tree, nothing missing);
\* without replace, the call raises FileExistsError and changes nothing.
C11_DownloadFolderReplaces ==
    (/\ last.op = "download_folder"
     /\ last.t \in {"local", "ftp", "sftp"}
     /\ Exists(last.pre.l, last.args.local))
    => IF last.args.replace
       THEN last.err = ""
            => Tree(local, last.args.local)
                 = Tree(TargetFS(last.t, last.pre.l, last.pre.r), last.args.remote)
       ELSE last.err = "FileExistsError" /\ local = last.pre.l

\* an SFTP folder download with replace succeeded and left out a directory
\* of the remote folder
C11_SubfolderNotFetched ==
    /\ last.op = "download_folder"
    /\ last.t = "sftp"
    /\ last.args.replace
    /\ last.err = ""
    /\ IsDir(last.pre.l, last.args.local)
    /\ \E n \in {NmR1, NmR2} :
         /\ IsDir(remote, last.args.remote \o <<n>>)
         /\ ~Exists(local, last.args.local \o <<n>>)

----------------------------------------------------------------------------
(* Properties of the runs of a step object (SpecRuns) *)

\* the attributes that are a step's configuration
ConfigFields ==
    { "class", "source_type", "source_path", "dest_type", "dest_path", "conn_type",
      "paths" }

----------------------------------------------------------------------------
(* Further properties of the transfer and transform steps (SpecTransfer) *)

\* C13: a transform whose temporary files could be made and whose
\* destination takes every write fails exactly when the command's exit
\* status is not 0 (a negative status, of a command ended by a signal,
\* included); it then raises AirflowException and writes nothing to the
\* destination; with status 0 the command's output is written.
C13_FailsIffExitNonZero ==
    (/\ last.op = "transfer"
     /\ last.t = "FileTransformOperator"
     /\ last.args.env.tmpfail = 0
     /\ last.args.dest.failAt = 0)
    => /\ (last.err # "") <=> (last.args.env.rc # 0)
       /\ last.args.env.rc # 0
            => (last.err = "AirflowException" /\ last.ret.dest = last.args.dest)
       /\ last.args.env.rc = 0
            => last.ret.dest.data = RunScript(last.args.env.script, last.args.source.data)

\* the command was ended by a signal, the transform did not fail and wrote
\* the command's output to the destination
C13_SignalCountsAsSuccess ==
    /\ last.op = "transfer"
    /\ last.t = "FileTransformOperator"
    /\ last.args.env.rc < 0
    /\ last.err = ""
    /\ last.ret.dest.data # <<>>
    /\ last.ret.dest.data # last.args.dest.data

----------------------------------------------------------------------------
(* Properties of hook instances (SpecConn) *)

\* C14: making a hook instance through the registry makes no connection;
\* an instance makes its connection at an I/O call and keeps it, so that
\* whatever calls are made on it, it has made at most one connection.
C14_LazyCachedConnection ==
    \A i \in 1..Len(hooks) :
        /\ hooks[i].connects <= 1
        /\ hooks[i].conn <=> hooks[i].connects = 1
        /\ hooks[i].calls = 0 => ~hooks[i].conn

\* an SFTP hook instance has been called twice and has made one connection
C14_SecondCallReuses ==
    \E i \in 1..Len(hooks) :
        /\ hooks[i].type = "sftp"
        /\ hooks[i].calls = 2
        /\ hooks[i].conn
        /\ hooks[i].connects = 1

----------------------------------------------------------------------------
(* Further properties of the download steps (SpecDownloadSteps) *)

\* C15: a download step without a destination path whose temporary path
\* cannot be made fails with an AirflowException and has attempted no
\* download and no connection.
C15_TempFailureIsStepError ==
    (/\ last.op \in {"download_execute", "folder_download_execute"}
     /\ last.args.dest_path = <<>>
     /\ ~last.args.tmpok)
    => /\ last.err = "AirflowException"
       /\ \A i \in 1..Len(last.log) : last.log[i][1] \notin {"connect", "net", "open_local"}
       /\ local = last.pre.l
       /\ temps = last.pre.t

\* mkstemp failed in a file download step and the step ended with NameError,
\* nothing fetched
C15_TempFailureRaisesNameError ==
    /\ last.op = "download_execute"
    /\ last.args.dest_path = <<>>
    /\ ~last.args.tmpok
    /\ last.log = << <<"mkstemp_failed">> >>
    /\ last.err = "NameError"
    /\ local = last.pre.l

----------------------------------------------------------------------------
(* Further properties of the sensors (SpecSensor) *)

\* the check on record: of a sensor made for it, or a run of a sensor object
SensorChecked ==
    \/ last.op \in {"check_source", "check_source_folder"}
    \/ last.op = "run" /\ last.t \in SensorClasses

CheckedType == IF last.op = "run" THEN last.args.obj.source_type ELSE last.t

CheckedPath == IF last.op = "run" THEN last.args.obj.source_path ELSE last.args.path

CheckedFile == last.op = "check_source" \/ last.t = "FileAvailabilitySensor"

\* C16: a sensor's check changes no file and no attribute of the sensor
\* object; it raises what the hook's file_exists (folder_exists for the
\* folder sensor) raises on the configured path and returns what that
\* returns; the same check on the files as they are after it ends the same.
C16_SensorIsPurePredicate ==
    SensorChecked
    => LET f == IF CheckedFile
                THEN file_exists(CheckedType, last.pre.l, last.pre.r, last.pre.t,
                                 CheckedPath, last.args.net)
                ELSE folder_exists(CheckedType, last.pre.l, last.pre.r, last.pre.t,
                                   CheckedPath, last.args.net)
           again == IF CheckedFile
                    THEN check_source(CheckedType, local, remote, temps, CheckedPath,
                                      last.args.net)
                    ELSE check_source_folder(CheckedType, local, remote, temps,
                                             CheckedPath, last.args.net)
       IN /\ local = last.pre.l
          /\ remote = last.pre.r
          /\ temps = last.pre.t
          /\ last.op = "run" => step.obj = last.args.obj
          /\ last.err = f.err
          /\ last.err = "" => last.ret = f.ret
          /\ again.err = last.err
          /\ last.err = "" => again.ret = last.ret

\* a file sensor object on an SFTP source has run a second time and found
\* the file
C16_SecondCheckFindsFile ==
    /\ last.op = "run"
    /\ last.t = "FileAvailabilitySensor"
    /\ last.args.obj.source_type = "sftp"
    /\ step.runs = 2
    /\ last.err = ""
    /\ last.ret = TRUE
    /\ IsFile(remote, last.args.obj.source_path)

----------------------------------------------------------------------------
(* Properties of a whole transform step (SpecTransfer) *)

\* a transform step has run whose command copies its input to its output
\* and exits with 0, whose source is a file and whose destination can be
\* written, the servers reachable
EchoStepRan ==
    /\ last.op = "execute"
    /\ last.t = "FileTransformOperator"
    /\ last.args.env.script = "echo"
    /\ last.args.env.rc = 0
    /\ last.args.cfg.use_stdin /\ last.args.cfg.use_stdout
    /\ last.args.net
    /\ last.args.source_type \in {"local", "ftp", "sftp"}
    /\ last.args.dest_type \in {"local", "ftp", "sftp"}
    /\ IsFile(TargetFS(last.args.source_type, last.pre.l, last.pre.r), last.args.source_path)
    /\ IsDir(TargetFS(last.args.dest_type, last.pre.l, last.pre.r),
             DirName(last.args.dest_path))
    /\ ~IsDir(TargetFS(last.args.dest_type, last.pre.l, last.pre.r), last.args.dest_path)
    /\ (last.args.source_type = "local") = (last.args.dest_type = "local")
         => last.args.source_path # last.args.dest_path

\* C17: a transform step whose command copies standard input to standard
\* output and exits with 0 ends without an exception and leaves the
\* destination a file with the content of the source, whatever the source's
\* size.
C17_EchoTransformIsIdentity ==
    EchoStepRan
    => /\ last.err = ""
       /\ Lookup(TargetFS(last.args.dest_type, local, remote), last.args.dest_path)
            = Lookup(TargetFS(last.args.source_type, last.pre.l, last.pre.r),
                     last.args.source_path)

\* the step read a local file of two lines, emptied its local destination
\* and raised
C17_DestinationLeftEmpty ==
    /\ EchoStepRan
    /\ last.args.source_type = "local"
    /\ last.args.dest_type = "local"
    /\ Len(last.pre.l[last.args.source_path].data) = 2
    /\ local[last.args.dest_path] = File(<<>>)
    /\ last.err = "AttributeError"

----------------------------------------------------------------------------
(* Properties of the hook instances of runs (SpecRuns) *)

\* C18: every hook instance is made within a run and used by that run
\* only, and every run that gets to its backend has made an instance of its
\* own: no instance, and so no connection, serves two runs.
C18_OwnHooksPerRun ==
    /\ \A i \in 1..Len(hooks) :
         /\ hooks[i].made_in >= 1
         /\ hooks[i].used_in = {hooks[i].made_in}
    /\ (/\ last.op = "run"
        /\ ~(last.t \in DownloadClasses /\ last.args.obj.dest_path = <<>>))
       => \E i \in 1..Len(hooks) : hooks[i].made_in = last.args.run

\* a transfer step has run twice; each run made a source and a destination
\* instance
C18_TwoRunsFourHooks ==
    /\ last.op = "run"
    /\ last.t = "FileTransferOperator"
    /\ step.runs = 2
    /\ Len(hooks) = 4
    /\ hooks[1].made_in = 1 /\ hooks[2].made_in = 1
    /\ hooks[3].made_in = 2 /\ hooks[4].made_in = 2

----------------------------------------------------------------------------
(* The order of events in a transform step (SpecTransfer) *)

\* the i-th event of the last operation opens or writes the destination
TouchesDest(i) ==
    \/ last.log[i][1] = "open_local" /\ last.log[i][3] = <<"w">>
    \/ last.log[i][1] = "new_buffer"
    \/ last.log[i][1] = "write_dest"

\* C19: in a transform step the source is read into the first temporary
\* file before the command runs, and the destination is opened, emptied or
\* written only after the command has run.
C19_DestOpenedAfterCommand ==
    (last.op = "execute" /\ last.t = "FileTransformOperator")
    => /\ \A i \in Events("run") : \E j \in Events("read_source") : j < i
       /\ \A i \in 1..Len(last.log) :
            TouchesDest(i) => \E j \in Events("run") : j < i

\* the step emptied its local destination, which held data, and no command
\* had run or ran
C19_TruncatedBeforeCommand ==
    /\ last.op = "execute"
    /\ last.t = "FileTransformOperator"
    /\ last.args.dest_type = "local"
    /\ IsFile(last.pre.l, last.args.dest_path)
    /\ last.pre.l[last.args.dest_path].data # <<>>
    /\ local[last.args.dest_path].data = <<>>
    /\ Events("run") = {}
    /\ \E i \in 1..Len(last.log) : TouchesDest(i)

----------------------------------------------------------------------------
(* Properties of a run of the pipeline (SpecDag) *)

\* every task of the run has ended or was given up
DagRunEnded ==
    /\ dag.run
    /\ \A t \in Tasks : dag.state[t] \in { "success", "failed", "upstream_failed" }

\* C20: when a run of etl_opa_v2 has ended, whatever its outcome, the staging
\* directory its staging task made is gone.
C20_StagingRemovedAtRunEnd ==
    (DagRunEnded /\ dag.state[mk_staging] = "success") => ~Exists(local, dag.xcom)

\* a download failed, so the cleanup task was given up; the run has ended and
\* the staging directory is still there
C20_StagingLeftAfterFailure ==
    /\ DagRunEnded
    /\ dag.state[mk_staging] = "success"
    /\ \E b \in Branches : dag.state[extract(b)] = "failed"
    /\ dag.state[cleanup] = "upstream_failed"
    /\ IsDir(local, dag.xcom)

\* two tasks neither of which comes after the other: the scheduler may
\* run them at the same time
Unordered(t, u) == t # u /\ t \notin Before(u) /\ u \notin Before(t)

\* C21: tasks of etl_opa_v2 that may run at the same time write different
\* files of the staging directory, and so do the tasks that are running at
\* the same time in any state of a run.
C21_ConcurrentWritesDisjoint ==
    /\ \A t \in Tasks, u \in Tasks :
         Unordered(t, u) => Writes(t) \cap Writes(u) = {}
    /\ \A t \in Tasks, u \in Tasks :
         (t # u /\ dag.state[t] = "running" /\ dag.state[u] = "running")
         => Writes(t) \cap Writes(u) = {}

\* the transform tasks of the branches b and c are running at the same time
\* and both write building_codes.csv
C21_TwoWritersOfBuildingCodes ==
    /\ dag.state[transform_task("b")] = "running"
    /\ dag.state[transform_task("c")] = "running"
    /\ Unordered(transform_task("b"), transform_task("c"))
    /\ Nm_building_codes_csv \in Writes(transform_task("b")) \cap Writes(transform_task("c"))

\* the scheduler has started the task
Started(t) == dag.state[t] \in { "running", "success", "failed" }

\* C22: a file a started task of etl_opa_v2 reads from the staging directory
\* is written by a task before it on its own branch, and is there while the
\* task runs.
C22_ReadsWrittenUpstream ==
    \A t \in Tasks :
      Started(t) =>
        \A f \in Reads(t) :
          /\ \E u \in Before(t) : u[2] = t[2] /\ f \in Writes(u)
          /\ dag.state[t] = "running" => IsFile(local, Rendered(f))

\* the load task of branch c runs on street_codes.csv, which no task writes
\* and the staging directory does not hold
C22_LoadReadsUnwrittenFile ==
    /\ dag.state[load("c")] = "running"
    /\ Reads(load("c")) = { Nm_street_codes_csv }
    /\ \A u \in Tasks : Nm_street_codes_csv \notin Writes(u)
    /\ ~Exists(local, Rendered(Nm_street_codes_csv))

\* C23: the cleanup task of etl_opa_v2 starts only when every download,
\* transform and load task of the run has ended with success (none of them
\* waits or runs), and a download starts only when the staging task has.
C23_CleanupStartsLast ==
    /\ Started(cleanup) =>
         \A b \in Branches :
           /\ dag.state[extract(b)] = "success"
           /\ dag.state[transform_task(b)] = "success"
           /\ dag.state[load(b)] = "success"
    /\ \A b \in Branches :
         Started(extract(b)) => dag.state[mk_staging] = "success"

\* the cleanup task runs: the five loads have ended and the staging directory
\* is still there for it to remove
C23_CleanupRunsAfterLoads ==
    /\ dag.state[cleanup] = "running"
    /\ \A b \in Branches : dag.state[load(b)] = "success"
    /\ IsDir(local, dag.xcom)

====
